---- MODULE Spec2Model ----
(***************************************************************************)
(* The forecasting core of the crop price dashboard:                       *)
(*   src/src/utils/dataUtils.ts        (prediction utilities)              *)
(*   src/src/services/predictionService.ts (PredictionService)             *)
(***************************************************************************)
EXTENDS Integers, Sequences, FiniteSets, TLC

(***************************************************************************)
(* JavaScript numbers.  An IEEE-754 double is abstracted as a decimal      *)
(* floating point number m * 10^e whose mantissa keeps eight significant   *)
(* digits, together with the special values NaN, +Infinity, -Infinity and  *)
(* the value undefined (which arithmetic converts to NaN).  A finite       *)
(* number is kept in canonical form (no trailing zero in the mantissa), so *)
(* two finite numbers are equal exactly when their records are equal.      *)
(* Every operation rounds its exact result to the nearest representable    *)
(* number, as the double operations do; results that fit are exact.        *)
(* Signed zeros and exponent overflow are not distinguished.               *)
(***************************************************************************)
Half == 10^4
Limit == Half * Half

NaN == [k |-> "nan", m |-> 0, e |-> 0]
PosInf == [k |-> "inf", m |-> 1, e |-> 0]
NegInf == [k |-> "inf", m |-> -1, e |-> 0]
Undefined == [k |-> "undef", m |-> 0, e |-> 0]
Zero == [k |-> "fin", m |-> 0, e |-> 0]

Abs(i) == IF i < 0 THEN -i ELSE i
Sgn(i) == IF i < 0 THEN -1 ELSE IF i > 0 THEN 1 ELSE 0
Min2(a, b) == IF a < b THEN a ELSE b
Max2(a, b) == IF a > b THEN a ELSE b

\* The number of trailing zeros of a > 0, and a * 10^e in canonical form.
Zeros(a) == CHOOSE z \in 0..9 : a % 10^z = 0 /\ a % 10^(z + 1) # 0

Strip(a, e) ==
    IF a = 0 THEN Zero
    ELSE [k |-> "fin", m |-> a \div 10^Zeros(a), e |-> e + Zeros(a)]

\* The magnitude a * 10^e rounded to eight digits (half away from zero).
RECURSIVE Fit(_, _)
Fit(a, e) == IF a < Limit THEN Strip(a, e) ELSE Fit((a + 5) \div 10, e + 1)

Make(s, a, e) == [Fit(a, e) EXCEPT !.m = s * @]

\* The number of decimal digits of a >= 0.
Digits(a) == IF a < 10 THEN 1 ELSE CHOOSE n \in 2..10 : a \div 10^(n - 1) \in 1..9

\* The decimal literal m * 10^e, e.g. Dec(3, -1) is 0.3.
Dec(m, e) == Make(Sgn(m), Abs(m), e)
Whole(i) == Dec(i, 0)

\* ToNumber turns undefined into NaN.
IsNaN(x) == x.k \in {"nan", "undef"}
Num(x) == IF IsNaN(x) THEN NaN ELSE x

Neg(x) == IF IsNaN(x) THEN NaN ELSE [x EXCEPT !.m = -@]

\* x + y for two finite numbers, x having the larger exponent: x is scaled
\* up by 10^up, and y down (rounded) to the same exponent.
AlignedSum(x, y, up) ==
    LET down == x.e - y.e - up
    IN Dec(x.m * 10^up
             + (IF down = 0 THEN y.m
                ELSE IF down > 9 THEN 0
                ELSE Sgn(y.m) * ((Abs(y.m) + (10^down) \div 2) \div 10^down)),
           x.e - up)

AddAligned(x, y) == AlignedSum(x, y, Min2(x.e - y.e, 9 - Digits(Abs(x.m))))

Add(x, y) ==
    IF x.k = "fin" /\ y.k = "fin"
    THEN (IF x.m = 0 THEN y
          ELSE IF y.m = 0 THEN x
          ELSE IF x.e >= y.e THEN AddAligned(x, y)
          ELSE AddAligned(y, x))
    ELSE IF IsNaN(x) \/ IsNaN(y) THEN NaN
    ELSE IF x.k = "inf" /\ y.k = "inf" THEN (IF x.m = y.m THEN x ELSE NaN)
    ELSE IF x.k = "inf" THEN x
    ELSE y

Sub(x, y) == Add(x, Neg(y))

\* a * b for two magnitudes below Limit, as <<high, low>> with
\* a * b = high * Limit + low.
MulParts(a, b) ==
    LET a1 == a \div Half
        a0 == a % Half
        b1 == b \div Half
        b0 == b % Half
        mid == a1 * b0 + a0 * b1
        t == (mid % Half) * Half + a0 * b0
    IN <<a1 * b1 + mid \div Half + t \div Limit, t % Limit>>

\* The product <<high, low>> * 10^e rounded to eight digits, n the number of
\* digits of high.
Product(s, p, n, e) ==
    IF p[1] = 0 THEN Make(s, p[2], e)
    ELSE Make(s, p[1] * 10^(8 - n) + p[2] \div 10^n
                   + (IF 2 * (p[2] % 10^n) >= 10^n THEN 1 ELSE 0),
              e + n)

Scaled(s, p, e) == Product(s, p, Digits(p[1]), e)

Mul(x, y) ==
    IF IsNaN(x) \/ IsNaN(y) THEN NaN
    ELSE IF x.k = "inf" \/ y.k = "inf"
    THEN (IF x.m = 0 \/ y.m = 0 THEN NaN
          ELSE IF Sgn(x.m) = Sgn(y.m) THEN PosInf ELSE NegInf)
    ELSE Scaled(Sgn(x.m) * Sgn(y.m), MulParts(Abs(x.m), Abs(y.m)), x.e + y.e)

\* Long division of magnitudes: q is the quotient so far, r the remainder.
RECURSIVE LongDiv(_, _, _, _, _)
LongDiv(s, q, r, b, e) ==
    IF r = 0 \/ q >= Limit \div 10
    THEN Make(s, q + (IF 2 * r >= b THEN 1 ELSE 0), e)
    ELSE LongDiv(s, q * 10 + (r * 10) \div b, (r * 10) % b, b, e - 1)

Div(x, y) ==
    IF x.k = "fin" /\ y.k = "fin" /\ y.m # 0
    THEN LongDiv(Sgn(x.m) * Sgn(y.m), Abs(x.m) \div Abs(y.m),
                 Abs(x.m) % Abs(y.m), Abs(y.m), x.e - y.e)
    ELSE IF IsNaN(x) \/ IsNaN(y) THEN NaN
    ELSE IF x.k = "inf"
    THEN (IF y.k = "inf" THEN NaN
          ELSE IF y.m < 0 THEN Neg(x) ELSE x)
    ELSE IF y.k = "inf" THEN Zero
    ELSE IF x.m = 0 THEN NaN ELSE IF x.m > 0 THEN PosInf ELSE NegInf

\* The sign of x - y for numbers that are not NaN.
Cmp(x, y) ==
    IF x.k = "inf" /\ y.k = "inf" THEN Sgn(x.m - y.m)
    ELSE IF x.k = "inf" THEN x.m
    ELSE IF y.k = "inf" THEN -y.m
    ELSE Sgn(Sub(x, y).m)

\* x < y and x <= y of JavaScript: false as soon as an operand is NaN.
Lt(x, y) == ~IsNaN(x) /\ ~IsNaN(y) /\ Cmp(x, y) < 0
Le(x, y) == ~IsNaN(x) /\ ~IsNaN(y) /\ Cmp(x, y) <= 0

\* x || y : 0, NaN and undefined are falsy.
OrElse(x, y) == IF IsNaN(x) \/ (x.k = "fin" /\ x.m = 0) THEN y ELSE x

\* The largest s with s * s <= a, for 0 <= a < 10^9: first the block of 178
\* numbers it lies in (the h-th), then the number itself.
ISqrtIn(a, h) ==
    CHOOSE s \in (178 * h)..(178 * h + 177) : s * s <= a /\ (s + 1) * (s + 1) > a

ISqrt(a) ==
    ISqrtIn(a, CHOOSE h \in 0..177 :
                 (178 * h) * (178 * h) <= a /\ (178 * h + 178) * (178 * h + 178) > a)

RECURSIVE Widen(_, _)
Widen(a, e) == IF a < Limit \div 10 THEN Widen(a * 100, e - 2) ELSE <<a, e>>

\* One Newton step towards the square root of x from the guess g.
Newton(x, g) == Mul(Dec(5, -1), Add(g, Div(x, g)))

\* The square root of the finite x = a * 10^e, e even, s the integer square
\* root of a: exact on perfect squares, else two Newton steps from the
\* integer square root of the widened mantissa w.
SqrtFrom(x, a, e, s, w) ==
    IF s * s = a THEN Make(1, s, e \div 2)
    ELSE Newton(x, Newton(x, Make(1, ISqrt(w[1]), w[2] \div 2)))

SqrtEven(x, a, e) == SqrtFrom(x, a, e, ISqrt(a), Widen(a, e))

\* Math.sqrt
Sqrt(x) ==
    IF IsNaN(x) THEN NaN
    ELSE IF x.m < 0 THEN NaN
    ELSE IF x.k = "inf" \/ x.m = 0 THEN x
    ELSE IF x.e % 2 = 0 THEN SqrtEven(x, x.m, x.e)
    ELSE SqrtEven(x, x.m * 10, x.e - 1)

\* Math.floor and Math.round (the nearest integer, halves towards +Infinity).
Floor(x) ==
    IF IsNaN(x) THEN NaN
    ELSE IF x.k # "fin" \/ x.e >= 0 THEN x
    ELSE IF -x.e > 9 THEN (IF x.m < 0 THEN Whole(-1) ELSE Zero)
    ELSE Whole(x.m \div 10^(-x.e))

Round(x) == IF x.k = "fin" /\ x.e < 0 THEN Floor(Add(x, Dec(5, -1))) ELSE Num(x)

\* Math.round(x * 100) / 100
Round2(x) == Div(Round(Mul(x, Whole(100))), Whole(100))

\* Math.max(x, y) and Math.pow(x, n) for an integer n >= 0.
MathMax(x, y) ==
    IF IsNaN(x) \/ IsNaN(y) THEN NaN ELSE IF Lt(x, y) THEN y ELSE x

RECURSIVE Pow(_, _)
Pow(x, n) == IF n = 0 THEN Whole(1) ELSE Mul(x, Pow(x, n - 1))

(***************************************************************************)
(* Array helpers.  Arrays are sequences; a[i] of the source is a[i + 1].   *)
(***************************************************************************)
\* The value of a statement sequence "const x = v; return e": S is written
\* {e : x \in {v}}, so that v is evaluated once, before e, as JavaScript
\* evaluates the initialiser of a const before it goes on.
Evaluated(S) == CHOOSE r \in S : TRUE

\* The array map() or a loop of push() builds: every element is evaluated
\* when the array is made.
Array(a) == <<>> \o a

\* array.reduce((sum, v) => sum + v, 0): the additions from left to right.
\* The sum so far is sum; elements lo..hi are added one after the other (the
\* range is taken in two halves).  A sum that is NaN stays NaN whatever is
\* added to it.
RECURSIVE SumFrom(_, _, _, _)
SumFrom(sum, a, lo, hi) ==
    IF sum.k = "nan" \/ lo > hi THEN sum
    ELSE IF lo = hi THEN Add(sum, a[lo])
    ELSE SumFrom(SumFrom(sum, a, lo, (lo + hi) \div 2), a, (lo + hi) \div 2 + 1, hi)

Sum(a) == Evaluated({SumFrom(Zero, elements, 1, Len(elements))
                     : elements \in {Array(a)}})

\* array.slice(-k)
SliceLast(a, k) == SubSeq(a, Max2(1, Len(a) - k + 1), Len(a))

\* array.map((_, index) => index)
Indices(a) == [i \in 1..Len(a) |-> Whole(i - 1)]

\* array.map(item => item.price)
Prices(data) == [i \in 1..Len(data) |-> data[i].price]

\* a[i] of the source (0-based), undefined outside the array.
At(a, i) == IF i >= 0 /\ i < Len(a) THEN a[i + 1] ELSE Undefined

(***************************************************************************)
(* Dates.  new Date(year, month - 1) is the first day of a month; it is    *)
(* kept as the pair (y, m) with m the 0-based month, and getTime() orders  *)
(* such dates as the pairs are ordered.  Math.max() of no dates is         *)
(* -Infinity, which makes an Invalid Date: its getFullYear() and           *)
(* getMonth() are NaN, written NaNPart.                                    *)
(***************************************************************************)
NaNPart == 0 - 1
InvalidDate == [y |-> NaNPart, m |-> NaNPart]
NewDate(year, month) == [y |-> year, m |-> month - 1]
Later(d1, d2) == d1.y > d2.y \/ (d1.y = d2.y /\ d1.m > d2.m)

\* new Date(Math.max(...data.map(item => new Date(item.year, item.month - 1).getTime())))
LastDate(data) ==
    LET dates == {NewDate(data[i].year, data[i].month) : i \in 1..Len(data)}
    IN IF dates = {} THEN InvalidDate
       ELSE CHOOSE d \in dates : \A other \in dates : ~Later(other, d)

\* FutureDate, the year left as it is when the month index passes 11.
FutureDateSameYear(lastDate, i) ==
    IF lastDate = InvalidDate THEN InvalidDate
    ELSE [y |-> lastDate.y, m |-> (lastDate.m + i) % 12]

\* const futureDate = new Date(lastDate); futureDate.setMonth(futureDate.getMonth() + i):
\* a month index outside 0..11 carries into the year.
FutureDate(lastDate, i) ==
    IF lastDate = InvalidDate THEN InvalidDate
    ELSE [y |-> lastDate.y + (lastDate.m + i) \div 12, m |-> (lastDate.m + i) % 12]

GetFullYear(d) == d.y
\* futureDate.getMonth() + 1
MonthOf(d) == IF d = InvalidDate THEN NaNPart ELSE d.m + 1

(***************************************************************************)
(* CropPrice records.  The id and region fields are left out (no operation *)
(* reads them); an optional field that is absent holds FALSE               *)
(* (isPrediction) or NoInterval (confidenceInterval).                      *)
(***************************************************************************)
NoInterval == [lower |-> Undefined, upper |-> Undefined]
DefaultUnit == "USD/metric ton"

\* priceData[0]?.crop || 'unknown' and priceData[0]?.unit || 'USD/metric ton'
CropOf(data) == IF Len(data) = 0 \/ data[1].crop = "" THEN "unknown" ELSE data[1].crop
UnitOf(data) == IF Len(data) = 0 \/ data[1].unit = "" THEN DefaultUnit ELSE data[1].unit

(***************************************************************************)
(* src/src/utils/dataUtils.ts, the prediction utilities.  A function of    *)
(* the source that names intermediate values is written as a chain of      *)
(* operators, each taking the values computed so far as parameters.        *)
(***************************************************************************)
\* 1 - residualSumSquares / totalSumSquares
RSquared(xValues, yValues, yMean, slope, intercept) ==
    Sub(Whole(1),
        Div(Sum([i \in 1..Len(yValues) |->
                   Pow(Sub(yValues[i], Add(Mul(slope, At(xValues, i - 1)), intercept)), 2)]),
            Sum([i \in 1..Len(yValues) |-> Pow(Sub(yValues[i], yMean), 2)])))

RegressionLine(xValues, yValues, yMean, slope, intercept) ==
    [slope |-> slope, intercept |-> intercept,
     r2 |-> RSquared(xValues, yValues, yMean, slope, intercept)]

\* intercept = (sumY - slope * sumX) / n and yMean = sumY / n
RegressionFrom(xValues, yValues, n, sumX, sumY, slope) ==
    RegressionLine(xValues, yValues, Div(sumY, n), slope,
                   Div(Sub(sumY, Mul(slope, sumX)), n))

\* slope = (n * sumXY - sumX * sumY) / (n * sumXX - sumX * sumX)
RegressionSums(xValues, yValues, s) ==
    Evaluated({RegressionFrom(xValues, yValues, s.n, s.sumX, s.sumY, slope)
               : slope \in {Div(Sub(Mul(s.n, s.sumXY), Mul(s.sumX, s.sumY)),
             Sub(Mul(s.n, s.sumXX), Mul(s.sumX, s.sumX)))}})

linearRegression(xValues, yValues) ==
    Evaluated({RegressionSums(xValues, yValues, s)
               : s \in {[n |-> Whole(Len(xValues)),
          sumX |-> Sum(xValues),
          sumY |-> Sum(yValues),
          sumXY |-> Sum([i \in 1..Len(xValues) |-> Mul(xValues[i], At(yValues, i - 1))]),
          sumXX |-> Sum([i \in 1..Len(xValues) |-> Mul(xValues[i], xValues[i])])]}})

DefaultAlpha == Dec(3, -1)

\* The loop from i = smoothed.length up to i = last (the range is taken in
\* two halves): smoothed.push(alpha * prices[i] + (1 - alpha) * smoothed[i - 1])
RECURSIVE SmoothFrom(_, _, _, _)
SmoothFrom(smoothed, prices, alpha, last) ==
    IF Len(smoothed) > last THEN smoothed
    ELSE IF Len(smoothed) = last
    THEN Append(smoothed,
                Add(Mul(alpha, prices[last + 1]),
                    Mul(Sub(Whole(1), alpha), smoothed[last])))
    ELSE SmoothFrom(SmoothFrom(smoothed, prices, alpha, (Len(smoothed) + last) \div 2),
                    prices, alpha, last)

exponentialSmoothing(prices, alpha) ==
    SmoothFrom(<<At(prices, 0)>>, prices, alpha, Len(prices) - 1)

\* prices.reduce((sum, p) => sum + p, 0) / prices.length
Average(prices) == Div(Sum(prices), Whole(Len(prices)))

MonthFactor(monthPrices, overallAverage) ==
    IF Len(monthPrices) > 0 THEN Div(Average(monthPrices), overallAverage) ELSE Whole(1)

FactorsFrom(priceData, overallAverage) ==
    Array([month \in 1..12 |->
             MonthFactor(Prices(SelectSeq(priceData, LAMBDA item : item.month = month)),
                         overallAverage)])

\* The seasonal factor of each calendar month 1..12.
SeasonalFactors(priceData) ==
    Evaluated({FactorsFrom(priceData, overallAverage)
               : overallAverage \in {Average(Prices(priceData))}})

\* seasonalFactors.get(month) || 1
FactorFor(factors, month) ==
    IF month \in 1..12 THEN OrElse(factors[month], Whole(1)) ELSE Whole(1)

TrendWindow == 24

\* slope * x + intercept
TrendAt(fit, x) == Add(Mul(fit.slope, Whole(x)), fit.intercept)

\* trendPrice * seasonalFactor * (1 + (Math.random() - 0.5) * 0.1)
SeasonalPrice(seasonalFactors, fit, x, month, draw) ==
    Mul(Mul(TrendAt(fit, x), FactorFor(seasonalFactors, month)),
        Add(Whole(1), Mul(Sub(draw, Dec(5, -1)), Dec(1, -1))))

\* SeasonalPoint, the quality label of the historical points kept.
SeasonalPointQualityKept(priceData, futureDate, finalPrice) ==
    [crop |-> CropOf(priceData),
     year |-> GetFullYear(futureDate),
     month |-> MonthOf(futureDate),
     price |-> Round2(finalPrice),
     unit |-> UnitOf(priceData),
     source |-> "ML Prediction",
     quality |-> "Grade A",
     isPrediction |-> FALSE,
     confidenceInterval |-> NoInterval]

SeasonalPoint(priceData, futureDate, finalPrice) ==
    [crop |-> CropOf(priceData),
     year |-> GetFullYear(futureDate),
     month |-> MonthOf(futureDate),
     price |-> Round2(finalPrice),
     unit |-> UnitOf(priceData),
     source |-> "ML Prediction",
     quality |-> "Forecasted",
     isPrediction |-> FALSE,
     confidenceInterval |-> NoInterval]

SeasonalSteps(priceData, monthsAhead, random, seasonalFactors, recentLength, fit, lastDate) ==
    Array([i \in 1..monthsAhead |->
             SeasonalPoint(priceData, FutureDate(lastDate, i),
                           SeasonalPrice(seasonalFactors, fit, recentLength + i,
                                         MonthOf(FutureDate(lastDate, i)), random[i]))])

\* random[i] is the value the i-th call of Math.random() returns.
seasonalForecast(priceData, monthsAhead, random) ==
    Evaluated({SeasonalSteps(priceData, monthsAhead, random, c.seasonalFactors,
                                  c.recentLength, c.fit, c.lastDate)
        : c \in {[seasonalFactors |-> SeasonalFactors(priceData),
          recentLength |-> Len(SliceLast(priceData, TrendWindow)),
          fit |-> linearRegression(Indices(SliceLast(priceData, TrendWindow)),
                                   Prices(SliceLast(priceData, TrendWindow))),
          lastDate |-> LastDate(priceData)]}})

\* denominator === 0 ? 0 : numerator / denominator
Ratio(numerator, denominator) ==
    IF denominator = Zero THEN Zero ELSE Div(numerator, denominator)

CorrelationOf(n, sumX, sumY, sumXY, sumXX, sumYY) ==
    Ratio(Sub(Mul(n, sumXY), Mul(sumX, sumY)),
          Sqrt(Mul(Sub(Mul(n, sumXX), Mul(sumX, sumX)),
                   Sub(Mul(n, sumYY), Mul(sumY, sumY)))))

calculateCorrelation(x, y) ==
    Evaluated({CorrelationOf(s.n, s.sumX, s.sumY, s.sumXY, s.sumXX, s.sumYY)
               : s \in {[n |-> Whole(Len(x)),
          sumX |-> Sum(x),
          sumY |-> Sum(y),
          sumXY |-> Sum([i \in 1..Len(x) |-> Mul(x[i], y[i])]),
          sumXX |-> Sum([i \in 1..Len(x) |-> Mul(x[i], x[i])]),
          sumYY |-> Sum([i \in 1..Len(y) |-> Mul(y[i], y[i])])]}})

DefaultOrder == 3
Thrown(message) == [ok |-> FALSE, error |-> message, value |-> <<>>]
Returned(v) == [ok |-> TRUE, error |-> "", value |-> v]

\* coefficients[lag - 1] for lag = 1..order
ArCoefficients(prices, order) ==
    Array([lag \in 1..order |->
             Mul(calculateCorrelation(
                   [i \in 1..(Len(prices) - order) |-> prices[i + order - lag]],
                   [i \in 1..(Len(prices) - order) |-> prices[i + order]]),
                 Dec(3, -1))])

\* The sum of the first j autoregressive terms of one forecast.
RECURSIVE ArTerms(_, _, _, _)
ArTerms(coefficients, extendedPrices, order, j) ==
    IF j = 0 THEN Zero
    ELSE Add(ArTerms(coefficients, extendedPrices, order, j - 1),
             Mul(OrElse(At(coefficients, j - 1), Zero),
                 extendedPrices[Len(extendedPrices) - (j - 1)]))

\* One forecast from the extended series.
ArStep(coefficients, extendedPrices, order) ==
    Add(Mul(ArTerms(coefficients, extendedPrices, order, Min2(order, Len(extendedPrices))),
            Dec(7, -1)),
        Mul(Average(SliceLast(extendedPrices, 12)), Dec(3, -1)))

\* The forecast loop from i = forecasts.length up to i = periodsAhead - 1
\* (the range is taken in two halves); extendedPrices is prices followed by
\* forecasts: forecasts.push(forecast); extendedPrices.push(forecast)
RECURSIVE ArForecasts(_, _, _, _, _)
ArForecasts(forecasts, coefficients, prices, order, periodsAhead) ==
    IF Len(forecasts) >= periodsAhead THEN forecasts
    ELSE IF Len(forecasts) = periodsAhead - 1
    THEN Append(forecasts, ArStep(coefficients, prices \o forecasts, order))
    ELSE ArForecasts(ArForecasts(forecasts, coefficients, prices, order,
                                 (Len(forecasts) + periodsAhead) \div 2),
                     coefficients, prices, order, periodsAhead)

\* arimaForecast, a series of exactly order prices let through.
arimaForecastOffByOne(prices, periodsAhead, order) ==
    IF Len(prices) < order
    THEN Thrown("Not enough data for ARIMA forecast")
    ELSE Returned(Evaluated({ArForecasts(<<>>, coefficients, prices, order, periodsAhead)
                             : coefficients \in {ArCoefficients(prices, order)}}))

arimaForecast(prices, periodsAhead, order) ==
    IF Len(prices) < order + 1
    THEN Thrown("Not enough data for ARIMA forecast")
    ELSE Returned(Evaluated({ArForecasts(<<>>, coefficients, prices, order, periodsAhead)
                             : coefficients \in {ArCoefficients(prices, order)}}))

\* ArimaOrLast, nothing filled in when arimaForecast throws.
ArimaOrNothing(attempt, prices, monthsAhead) ==
    IF attempt.ok THEN attempt.value ELSE <<>>

\* try { arimaForecasts = arimaForecast(...) } catch { ...fill(prices[prices.length - 1]) }
ArimaOrLast(attempt, prices, monthsAhead) ==
    IF attempt.ok THEN attempt.value
    ELSE [i \in 1..monthsAhead |-> At(prices, Len(prices) - 1)]

\* The four component values of one forecast step.
EnsembleTerm(prediction, linearPrice, smoothingPrice, arimaValue) ==
    [seasonalPrice |-> OrElse(prediction.price, Zero),
     linearPrice |-> linearPrice,
     smoothingPrice |-> smoothingPrice,
     arimaPrice |-> OrElse(arimaValue, linearPrice),
     prediction |-> prediction]

\* The component values of forecast steps i = 0..monthsAhead - 1 of the
\* source; smoothingPrice = lastSmoothed * (1 + (slope / intercept) * 0.01).
TermsFrom(count, monthsAhead, seasonalPredictions, fit, lastSmoothed, arimaForecasts) ==
    Array([i \in 1..monthsAhead |->
             EnsembleTerm(seasonalPredictions[i],
                          TrendAt(fit, count + (i - 1)),
                          Mul(lastSmoothed,
                              Add(Whole(1), Mul(Div(fit.slope, fit.intercept), Dec(1, -2)))),
                          At(arimaForecasts, i - 1))])

\* const lastSmoothed = smoothedPrices[smoothedPrices.length - 1]
Last(a) == At(a, Len(a) - 1)

EnsembleTerms(priceData, monthsAhead, random) ==
    Evaluated({TermsFrom(Len(priceData), monthsAhead, c.seasonalPredictions, c.fit,
                              c.lastSmoothed, c.arimaForecasts)
        : c \in {[seasonalPredictions |-> seasonalForecast(priceData, monthsAhead, random),
          fit |-> linearRegression(Indices(priceData), Prices(priceData)),
          lastSmoothed |-> Last(exponentialSmoothing(Prices(priceData), DefaultAlpha)),
          arimaForecasts |->
            ArimaOrLast(arimaForecast(Prices(priceData), monthsAhead, DefaultOrder),
                        Prices(priceData), monthsAhead)]}})

\* EnsemblePrice, every method weighted 0.25.
EnsemblePriceEqualWeights(t) ==
    Add(Add(Add(Mul(t.seasonalPrice, Dec(25, -2)), Mul(t.linearPrice, Dec(25, -2))),
            Mul(t.smoothingPrice, Dec(25, -2))),
        Mul(t.arimaPrice, Dec(25, -2)))

EnsemblePrice(t) ==
    Add(Add(Add(Mul(t.seasonalPrice, Dec(4, -1)), Mul(t.linearPrice, Dec(25, -2))),
            Mul(t.smoothingPrice, Dec(2, -1))),
        Mul(t.arimaPrice, Dec(15, -2)))

\* CombinedPredictions, every entry dated as the first one.
CombinedPredictionsFirstDate(terms) ==
    Array([i \in 1..Len(terms) |->
             [terms[1].prediction EXCEPT !.price = Round2(EnsemblePrice(terms[i])),
                                         !.source = "Ensemble ML Prediction",
                                         !.quality = "AI Forecasted"]])

CombinedPredictions(terms) ==
    Array([i \in 1..Len(terms) |->
             [terms[i].prediction EXCEPT !.price = Round2(EnsemblePrice(terms[i])),
                                         !.source = "Ensemble ML Prediction",
                                         !.quality = "AI Forecasted"]])

\* No statement of the try block throws (the failure of arimaForecast is
\* caught inside it), so the outer catch is never entered.
ensembleForecast(priceData, monthsAhead, random) ==
    Evaluated({CombinedPredictions(terms)
               : terms \in {EnsembleTerms(priceData, monthsAhead, random)}})

\* DefaultConfidenceLevel, the 0.99 level.
OtherConfidenceLevel == Dec(99, -2)
DefaultConfidenceLevel == Dec(95, -2)

ZScore(confidenceLevel) ==
    IF confidenceLevel = Dec(95, -2) THEN Dec(196, -2)
    ELSE IF confidenceLevel = Dec(99, -2) THEN Dec(258, -2)
    ELSE Dec(1645, -3)

\* returns[i - 1] of the source, for i = 1..historicalPrices.length - 1
Returns(historicalPrices) ==
    [i \in 1..(Len(historicalPrices) - 1) |->
       Div(Sub(historicalPrices[i + 1], historicalPrices[i]), historicalPrices[i])]

\* Math.sqrt(returns.reduce((sum, r) => sum + r * r, 0) / returns.length)
Volatility(returns) ==
    Sqrt(Div(Sum([i \in 1..Len(returns) |-> Mul(returns[i], returns[i])]),
             Whole(Len(returns))))

\* Margin, divided by the time adjustment instead of multiplied.
MarginShrinking(zScore, volatility, pred, i) ==
    Div(Mul(Mul(zScore, volatility), pred), Sqrt(Whole(i + 1)))

\* Margin, the volatility added to the prediction.
MarginAdded(zScore, volatility, pred, i) ==
    Mul(Mul(zScore, Add(volatility, pred)), Sqrt(Whole(i + 1)))

\* zScore * volatility * pred * timeAdjustment, for the 0-based index i
Margin(zScore, volatility, pred, i) ==
    Mul(Mul(Mul(zScore, volatility), pred), Sqrt(Whole(i + 1)))

IntervalsFrom(predictions, zScore, volatility) ==
    [lower |-> Array([i \in 1..Len(predictions) |->
                        Sub(predictions[i],
                            Margin(zScore, volatility, predictions[i], i - 1))]),
     upper |-> Array([i \in 1..Len(predictions) |->
                        Add(predictions[i],
                            Margin(zScore, volatility, predictions[i], i - 1))])]

calculateConfidenceIntervals(historicalPrices, predictions, confidenceLevel) ==
    Evaluated({IntervalsFrom(predictions, ZScore(confidenceLevel), volatility)
               : volatility \in {Volatility(Returns(historicalPrices))}})

(***************************************************************************)
(* src/src/services/predictionService.ts, PredictionService                *)
(***************************************************************************)
\* private static models (description and lastUpdated are left out).
InitialModels ==
    << [name |-> "Ensemble ML Model", accuracy |-> Dec(85, -2)],
       [name |-> "Seasonal Decomposition", accuracy |-> Dec(78, -2)],
       [name |-> "Linear Regression", accuracy |-> Dec(72, -2)] >>

\* MinHistory, the limit of validateDataForPrediction taken for it.
MinHistoryAsValidLimit == 5 + 1
MinHistory == 12
FallbackConfidence == Dec(60, -2)
FallbackModel == "Simple Trend Model (Fallback)"
ModelTypes == {"ensemble", "seasonal", "linear"}

\* MonthlyGrowthRate, the yearly rate taken as the monthly one.
YearlyGrowthRate == Dec(2, -2)

\* const monthlyGrowthRate = 0.02 / 12
MonthlyGrowthRate == Div(Dec(2, -2), Whole(12))

LinearPoint(historicalData, futureDate, predictedPrice) ==
    [crop |-> CropOf(historicalData),
     year |-> GetFullYear(futureDate),
     month |-> MonthOf(futureDate),
     price |-> MathMax(Zero, Round2(predictedPrice)),
     unit |-> UnitOf(historicalData),
     source |-> "Linear Regression Model",
     quality |-> "ML Predicted",
     isPrediction |-> TRUE,
     confidenceInterval |-> NoInterval]

LinearSteps(historicalData, monthsAhead, fit, lastDate) ==
    Array([i \in 1..monthsAhead |->
             LinearPoint(historicalData, FutureDate(lastDate, i),
                         TrendAt(fit, Len(historicalData) + i))])

generateLinearPredictions(historicalData, monthsAhead) ==
    Evaluated({LinearSteps(historicalData, monthsAhead, fit, LastDate(historicalData))
               : fit \in {linearRegression(Indices(historicalData), Prices(historicalData))}})

SimpleTrendPoint(historicalData, futureDate, predictedPrice) ==
    [crop |-> CropOf(historicalData),
     year |-> GetFullYear(futureDate),
     month |-> MonthOf(futureDate),
     price |-> Round2(predictedPrice),
     unit |-> UnitOf(historicalData),
     source |-> "Simple Trend Model",
     quality |-> "Basic Prediction",
     isPrediction |-> TRUE,
     confidenceInterval |-> NoInterval]

SimpleTrendSteps(historicalData, monthsAhead, avgRecentPrice, lastDate) ==
    Array([i \in 1..monthsAhead |->
             SimpleTrendPoint(historicalData, FutureDate(lastDate, i),
                              Mul(avgRecentPrice, Pow(Add(Whole(1), MonthlyGrowthRate), i)))])

generateSimpleTrendPredictions(historicalData, monthsAhead) ==
    IF Len(historicalData) = 0 THEN <<>>
    ELSE Evaluated({SimpleTrendSteps(historicalData, monthsAhead, avgRecentPrice,
                                 LastDate(historicalData))
        : avgRecentPrice \in {Average(Prices(SliceLast(historicalData, 12)))}})

\* The switch on modelType: the predictions, the registry entry, the methods.
Dispatch(models, historicalData, monthsAhead, modelType, random) ==
    IF modelType = "ensemble"
    THEN [predictions |-> ensembleForecast(historicalData, monthsAhead, random),
          model |-> models[1],
          methodsUsed |-> <<"Seasonal Analysis", "Linear Regression",
                            "Exponential Smoothing", "ARIMA">>]
    ELSE IF modelType = "seasonal"
    THEN [predictions |-> seasonalForecast(historicalData, monthsAhead, random),
          model |-> models[2],
          methodsUsed |-> <<"Seasonal Decomposition", "Trend Analysis">>]
    ELSE IF modelType = "linear"
    THEN [predictions |-> generateLinearPredictions(historicalData, monthsAhead),
          model |-> models[3],
          methodsUsed |-> <<"Linear Regression">>]
    ELSE [predictions |-> ensembleForecast(historicalData, monthsAhead, random),
          model |-> models[1],
          methodsUsed |-> <<"Ensemble Methods">>]

\* EnhanceWith, the isPrediction flag left as the model set it.
EnhanceWithoutFlag(predictions, confidenceIntervals) ==
    Array([i \in 1..Len(predictions) |->
             [predictions[i] EXCEPT
                !.confidenceInterval = [lower |-> Round2(confidenceIntervals.lower[i]),
                                        upper |-> Round2(confidenceIntervals.upper[i])]]])

\* {...pred, isPrediction: true, confidenceInterval: {lower: ..., upper: ...}}
EnhanceWith(predictions, confidenceIntervals) ==
    Array([i \in 1..Len(predictions) |->
             [predictions[i] EXCEPT
                !.isPrediction = TRUE,
                !.confidenceInterval = [lower |-> Round2(confidenceIntervals.lower[i]),
                                        upper |-> Round2(confidenceIntervals.upper[i])]]])

\* predictions.map((pred, index) => ...) over the intervals of the prices
Enhance(predictions, historicalData) ==
    Evaluated({EnhanceWith(predictions, confidenceIntervals)
               : confidenceIntervals \in {calculateConfidenceIntervals(Prices(historicalData), Prices(predictions),
                                      DefaultConfidenceLevel)}})

\* ForecastOf, the predictions counted as the data points.
ForecastOfCountingPredictions(chosen, historicalData, monthsAhead) ==
    [predictions |-> Enhance(chosen.predictions, historicalData),
     confidence |-> chosen.model.accuracy,
     model |-> chosen.model.name,
     accuracy |-> chosen.model.accuracy,
     metadata |-> [methodsUsed |-> chosen.methodsUsed,
                   dataPoints |-> Len(chosen.predictions),
                   forecastHorizon |-> monthsAhead]]

ForecastOf(chosen, historicalData, monthsAhead) ==
    [predictions |-> Enhance(chosen.predictions, historicalData),
     confidence |-> chosen.model.accuracy,
     model |-> chosen.model.name,
     accuracy |-> chosen.model.accuracy,
     metadata |-> [methodsUsed |-> chosen.methodsUsed,
                   dataPoints |-> Len(historicalData),
                   forecastHorizon |-> monthsAhead]]

\* The try block: it throws, or returns the ForecastResult.
TryBlock(models, historicalData, monthsAhead, modelType, random) ==
    IF Len(historicalData) < MinHistory
    THEN Thrown("Insufficient historical data for reliable predictions")
    ELSE Returned(Evaluated({ForecastOf(chosen, historicalData, monthsAhead)
                             : chosen \in {Dispatch(models, historicalData, monthsAhead, modelType, random)}}))

\* CatchBlock, the error thrown again.
CatchBlockRethrows(error, historicalData, monthsAhead) == Thrown(error)

\* The catch block: no statement of it throws, it returns the fallback.
CatchBlock(error, historicalData, monthsAhead) ==
    Returned([predictions |-> generateSimpleTrendPredictions(historicalData, monthsAhead),
              confidence |-> FallbackConfidence,
              model |-> FallbackModel,
              accuracy |-> FallbackConfidence,
              metadata |-> [methodsUsed |-> <<"Simple Trend">>,
                            dataPoints |-> Len(historicalData),
                            forecastHorizon |-> monthsAhead]])

\* try { ... } catch (error) { ... }
Settle(attempt, historicalData, monthsAhead) ==
    IF attempt.ok THEN attempt ELSE CatchBlock(attempt.error, historicalData, monthsAhead)

\* The promise of the async method: resolved with the value the body
\* returns, rejected with the error it throws.
generatePredictions(models, historicalData, monthsAhead, modelType, random) ==
    Settle(TryBlock(models, historicalData, monthsAhead, modelType, random),
           historicalData, monthsAhead)

getAvailableModels(models) == [i \in 1..Len(models) |-> models[i]]

\* ValidLimit, one month more.
ValidLimitOffByOne == 6 + 1
ValidLimit == 6

validateDataForPrediction(data) ==
    IF Len(data) = 0
    THEN [isValid |-> FALSE,
          message |-> "No historical data available",
          recommendations |-> <<"Select a crop with available data">>]
    ELSE IF Len(data) < ValidLimit
    THEN [isValid |-> FALSE,
          message |-> "Insufficient data for reliable predictions",
          recommendations |-> <<"At least 6 months of historical data required",
                                "Try selecting a longer time range">>]
    ELSE IF Len(data) < MinHistory
    THEN [isValid |-> TRUE,
          message |-> "Limited data available - predictions may be less accurate",
          recommendations |-> <<"Consider selecting a longer time range for better accuracy",
                                "Predictions will use simplified models">>]
    ELSE [isValid |-> TRUE,
          message |-> "Sufficient data available for accurate predictions",
          recommendations |-> <<>>]

(***************************************************************************)
(* The callers' inputs.  A historical series is a monthly series of n      *)
(* points from a start month, its prices following one of a few shapes;    *)
(* in a swapped series the two latest months come in reverse order.        *)
(***************************************************************************)
MaxLen == 13
MaxHorizon == 3
StartYear == 2022

Shapes == {"flat", "up", "down", "zigzag", "cents", "dip"}

\* The price of the point at index t (0-based).
ShapePrice(shape, t) ==
    IF shape = "flat" THEN Whole(160)
    ELSE IF shape = "up" THEN Whole(100 + 5 * t)
    ELSE IF shape = "down" THEN Whole(Max2(0, 300 - 12 * t))
    ELSE IF shape = "zigzag" THEN Whole(100 + 50 * (t % 2))
    ELSE IF shape = "cents" THEN Dec(12055 + 125 * t * (1 + (t % 3)), -2)
    ELSE Whole(50 * ((t + 2) % 3))

Point(shape, startMonth, t) ==
    [crop |-> "corn",
     year |-> StartYear + (startMonth - 1 + t) \div 12,
     month |-> ((startMonth - 1 + t) % 12) + 1,
     price |-> ShapePrice(shape, t),
     unit |-> "USD/bushel",
     source |-> "Mock Data",
     quality |-> "Grade A",
     isPrediction |-> FALSE,
     confidenceInterval |-> NoInterval]

Series(n, shape, startMonth, swapped) ==
    [i \in 1..n |->
       Point(shape, startMonth,
             IF swapped /\ n >= 2 /\ i = n THEN n - 2
             ELSE IF swapped /\ n >= 2 /\ i = n - 1 THEN n - 1
             ELSE i - 1)]

Lengths == 0..MaxLen \cup {TrendWindow, TrendWindow + 1}

Histories ==
    {Series(n, shape, 1, FALSE) : n \in Lengths, shape \in Shapes}
    \cup {Series(n, "up", 11, TRUE) : n \in 0..MaxLen}

\* The values Math.random() returns lie in [0, 1).
Draws == {Zero, Dec(5, -1), Dec(99999999, -8)}
RandomStreams(h) ==
    {[i \in 1..h |-> d] : d \in Draws}
    \cup {[i \in 1..h |-> IF i % 2 = 1 THEN Zero ELSE Dec(99999999, -8)]}

\* The horizon of the dashboard's default request.
DefaultMonthsAhead == 12
Horizons(data) ==
    1..MaxHorizon \cup (IF Len(data) = TrendWindow THEN {DefaultMonthsAhead} ELSE {})

UsesRandom(data, modelType) == Len(data) >= MinHistory /\ modelType # "linear"

\* The predicted prices a caller passes to calculateConfidenceIntervals: the
\* sequences of up to MaxHorizon prices of 10 and 100, and one price below 0.
PredictedPrices == {Whole(10), Whole(100)}
PredictedSequences ==
    UNION {[1..h -> PredictedPrices] : h \in 0..MaxHorizon} \cup {<<Whole(-10)>>}
ConfidenceLevels == {DefaultConfidenceLevel, Dec(9, -1)}

(***************************************************************************)
(* The state: the registry of the service, the caller's series, the last   *)
(* call made and its outcome, and the state of the App component.          *)
(***************************************************************************)
VARIABLES models, historicalData, call, outcome, app

vars == <<models, historicalData, call, outcome, app>>

\* The App component is not mounted.
Unmounted == [mounted |-> FALSE]

NoCall == [op |-> "none"]
NoOutcome == [ok |-> TRUE, error |-> "", value |-> <<>>]

Init ==
    /\ models = InitialModels
    /\ historicalData \in Histories
    /\ call = NoCall
    /\ outcome = NoOutcome
    /\ app = Unmounted

\* GeneratePredictions, the caller's array reversed in place by the call.
GeneratePredictionsReversing ==
    /\ call = NoCall
    /\ \E monthsAhead \in Horizons(historicalData), modelType \in ModelTypes \cup {"other"} :
         \E random \in (IF UsesRandom(historicalData, modelType)
                        THEN RandomStreams(monthsAhead) ELSE {<<>>}) :
           /\ call' = [op |-> "generatePredictions", monthsAhead |-> monthsAhead,
                       modelType |-> modelType, random |-> random]
           /\ outcome' = generatePredictions(models, historicalData, monthsAhead,
                                             modelType, random)
    /\ historicalData' = [i \in 1..Len(historicalData) |->
                            historicalData[Len(historicalData) + 1 - i]]
    /\ UNCHANGED <<models, app>>

\* A call is made once the outcome of the call before it has been taken.
GeneratePredictions ==
    /\ call = NoCall
    /\ \E monthsAhead \in Horizons(historicalData), modelType \in ModelTypes \cup {"other"} :
         \E random \in (IF UsesRandom(historicalData, modelType)
                        THEN RandomStreams(monthsAhead) ELSE {<<>>}) :
           /\ call' = [op |-> "generatePredictions", monthsAhead |-> monthsAhead,
                       modelType |-> modelType, random |-> random]
           /\ outcome' = generatePredictions(models, historicalData, monthsAhead,
                                             modelType, random)
    /\ UNCHANGED <<models, historicalData, app>>

ValidateDataForPrediction ==
    /\ call = NoCall
    /\ call' = [op |-> "validateDataForPrediction"]
    /\ outcome' = Returned(validateDataForPrediction(historicalData))
    /\ UNCHANGED <<models, historicalData, app>>

GetAvailableModels ==
    /\ call = NoCall
    /\ call' = [op |-> "getAvailableModels"]
    /\ outcome' = Returned(getAvailableModels(models))
    /\ UNCHANGED <<models, historicalData, app>>

\* The caller takes the outcome of the call.
TakeOutcome ==
    /\ call # NoCall
    /\ call' = NoCall
    /\ outcome' = NoOutcome
    /\ UNCHANGED <<models, historicalData, app>>

Next ==
    \/ GeneratePredictions
    \/ ValidateDataForPrediction
    \/ GetAvailableModels
    \/ TakeOutcome

Spec == Init /\ [][Next]_vars

(***************************************************************************)
(* The prediction utilities called directly, on the prices of the series.  *)
(***************************************************************************)
CalculateConfidenceIntervals ==
    /\ call = NoCall
    /\ \E predictions \in PredictedSequences, confidenceLevel \in ConfidenceLevels :
         /\ call' = [op |-> "calculateConfidenceIntervals", predictions |-> predictions,
                     confidenceLevel |-> confidenceLevel]
         /\ outcome' = Returned(calculateConfidenceIntervals(Prices(historicalData),
                                                             predictions, confidenceLevel))
    /\ UNCHANGED <<models, historicalData, app>>

ArimaForecast ==
    /\ call = NoCall
    /\ \E periodsAhead \in 0..MaxHorizon :
         /\ call' = [op |-> "arimaForecast", periodsAhead |-> periodsAhead,
                     order |-> DefaultOrder]
         /\ outcome' = arimaForecast(Prices(historicalData), periodsAhead, DefaultOrder)
    /\ UNCHANGED <<models, historicalData, app>>

EnsembleForecast ==
    /\ call = NoCall
    /\ \E monthsAhead \in 1..MaxHorizon, random \in RandomStreams(MaxHorizon) :
         /\ call' = [op |-> "ensembleForecast", monthsAhead |-> monthsAhead,
                     random |-> SubSeq(random, 1, monthsAhead)]
         /\ outcome' = Returned(ensembleForecast(historicalData, monthsAhead,
                                                 SubSeq(random, 1, monthsAhead)))
    /\ UNCHANGED <<models, historicalData, app>>

NextUtilities ==
    \/ CalculateConfidenceIntervals
    \/ ArimaForecast
    \/ EnsembleForecast
    \/ TakeOutcome

SpecUtilities == Init /\ [][NextUtilities]_vars

(***************************************************************************)
(* The single forecasting models called directly.                          *)
(***************************************************************************)
SeasonalForecast ==
    /\ call = NoCall
    /\ \E monthsAhead \in Horizons(historicalData) :
         \E random \in RandomStreams(monthsAhead) :
           /\ call' = [op |-> "seasonalForecast", monthsAhead |-> monthsAhead,
                       random |-> random]
           /\ outcome' = Returned(seasonalForecast(historicalData, monthsAhead, random))
    /\ UNCHANGED <<models, historicalData, app>>

\* linearRegression on the prices of the series, over the index positions
\* 0, 1, 2, ... or over x values that are all 2.
LinearRegression ==
    /\ call = NoCall
    /\ \E xValues \in {Indices(historicalData),
                        [i \in 1..Len(historicalData) |-> Whole(2)]} :
         /\ call' = [op |-> "linearRegression", xValues |-> xValues,
                     yValues |-> Prices(historicalData)]
         /\ outcome' = Returned(linearRegression(xValues, Prices(historicalData)))
    /\ UNCHANGED <<models, historicalData, app>>

\* exponentialSmoothing on the prices of the series, with the default alpha
\* or another one of (0, 1].
ExponentialSmoothing ==
    /\ call = NoCall
    /\ \E alpha \in {DefaultAlpha, Dec(5, -1), Whole(1)} :
         /\ call' = [op |-> "exponentialSmoothing", prices |-> Prices(historicalData),
                     alpha |-> alpha]
         /\ outcome' = Returned(exponentialSmoothing(Prices(historicalData), alpha))
    /\ UNCHANGED <<models, historicalData, app>>

NextModels ==
    \/ SeasonalForecast
    \/ LinearRegression
    \/ ExponentialSmoothing
    \/ TakeOutcome

SpecModels == Init /\ [][NextModels]_vars

(***************************************************************************)
(* src/src/services/cropPriceService.ts, CropPriceService.getCropPrices.   *)
(* A price record holds crop, year, month and source; its price (taken     *)
(* from a response or drawn with Math.random()) is left out.  The state of *)
(* a call is held in call: index is the data source awaited (1..3), and    *)
(* settled holds the results of the data sources that have settled.        *)
(***************************************************************************)
\* cropOptions of src/src/data/mockData.ts, the crops with pre-generated data.
CropOptions ==
    {"corn", "wheat", "rice", "soybeans", "cotton", "sugar", "coffee", "cocoa",
     "palm_oil", "rubber"}

\* generateMockPriceData: twelve records for each year startYear..endYear.
generateMockPriceData(crop, startYear, endYear) ==
    [i \in 1..(12 * Max2(0, endYear - startYear + 1)) |->
       [crop |-> crop, year |-> startYear + (i - 1) \div 12, month |-> ((i - 1) % 12) + 1,
        source |-> "World Bank Commodity Markets"]]

\* DataSources, Quandl tried first.
DataSourcesQuandlFirst(crop, startYear, endYear) ==
    << [name |-> "fetchFromQuandl",
        results |-> {Thrown("Quandl API not configured - requires premium access")}],
       [name |-> "fetchFromAlternativeAPI",
        results |-> {Thrown("Alternative API failed")}],
       [name |-> "fetchFromWorldBank",
        results |-> {Thrown("World Bank API failed")}] >>

\* const dataSources, with the results each fetch function may settle with.
\* fetchFromAlternativeAPI returns the Alpha Vantage records of the years
\* startYear..endYear, sorted, and throws when there is none or the crop has
\* no symbol; fetchFromQuandl throws; fetchFromWorldBank returns one record
\* for every item of the response that has a value (none, maybe), and
\* throws when the crop has no code or the request fails.
DataSources(crop, startYear, endYear) ==
    << [name |-> "fetchFromAlternativeAPI",
        results |->
          {Thrown("Alternative API failed")}
          \cup (IF crop \in {"corn", "wheat", "soybeans", "cotton", "sugar", "coffee", "rice"}
                THEN {Returned([i \in 1..n |->
                                  [crop |-> crop, year |-> startYear, month |-> i,
                                   source |-> "Alpha Vantage"]]) :
                        n \in (IF startYear <= endYear THEN 1..2 ELSE {})}
                ELSE {})],
       [name |-> "fetchFromQuandl",
        results |-> {Thrown("Quandl API not configured - requires premium access")}],
       [name |-> "fetchFromWorldBank",
        results |->
          {Thrown("World Bank API failed")}
          \cup (IF crop \in CropOptions
                THEN {Returned([i \in 1..n |->
                                  [crop |-> crop, year |-> startYear + i - 1, month |-> 6,
                                   source |-> "World Bank"]]) : n \in 0..2}
                ELSE {})] >>

InitCropPrices ==
    /\ models = InitialModels
    /\ historicalData = <<>>
    /\ call = NoCall
    /\ outcome = NoOutcome
    /\ app = Unmounted

\* getCropPrices up to its first await: the first data source is called.
GetCropPrices ==
    /\ call = NoCall
    /\ \E crop \in {"corn", "rice", "cocoa", "durian"},
          years \in {<<2018, 2024>>, <<2020, 2021>>, <<2025, 2026>>, <<2021, 2020>>} :
         call' = [op |-> "getCropPrices", crop |-> crop, startYear |-> years[1],
                  endYear |-> years[2], index |-> 1, settled |-> <<>>, resolved |-> FALSE]
    /\ UNCHANGED <<models, historicalData, outcome, app>>

\* The data source awaited settles: with a list that is not empty the call
\* resolves with it; otherwise the next data source is called, and after the
\* last one the call resolves with the mock data of the years asked for.
DataSourceSettles ==
    /\ call.op = "getCropPrices" /\ ~call.resolved
    /\ \E result \in DataSources(call.crop, call.startYear, call.endYear)[call.index].results :
         IF result.ok /\ Len(result.value) > 0
         THEN /\ outcome' = Returned([data |-> result.value,
                                      success |-> TRUE,
                                      totalRecords |-> Len(result.value),
                                      message |-> <<"Data from source 1", "Data from source 2",
                                                    "Data from source 3">>[call.index]])
              /\ call' = [call EXCEPT !.settled = Append(@, result), !.resolved = TRUE]
         ELSE IF call.index < 3
         THEN /\ call' = [call EXCEPT !.settled = Append(@, result), !.index = @ + 1]
              /\ UNCHANGED outcome
         ELSE /\ outcome' =
                   Evaluated({Returned([data |-> filteredData,
                                        success |-> TRUE,
                                        message |-> "Using realistic mock data - All external APIs unavailable",
                                        totalRecords |-> Len(filteredData)])
                              : filteredData \in
                                  {SelectSeq(IF call.crop \in CropOptions
                                             THEN generateMockPriceData(call.crop, 2018, 2024)
                                             ELSE generateMockPriceData(call.crop, call.startYear,
                                                                        call.endYear),
                                             LAMBDA item : item.year >= call.startYear
                                                           /\ item.year <= call.endYear)}})
              /\ call' = [call EXCEPT !.settled = Append(@, result), !.resolved = TRUE]
    /\ UNCHANGED <<models, historicalData, app>>

\* The caller takes the response once the call has resolved.
NextCropPrices ==
    \/ GetCropPrices
    \/ DataSourceSettles
    \/ (call # NoCall /\ call.resolved /\ TakeOutcome)

\* Every awaited promise settles: fetchFromQuandl throws at once, and the
\* requests of the other two carry a timeout (15000, 10000).
SpecCropPrices ==
    InitCropPrices /\ [][NextCropPrices]_vars /\ WF_vars(DataSourceSettles)

(***************************************************************************)
(* src/unnamed/part_002 (App) and src/src/components/FilterControls.tsx.   *)
(* app holds the state of the mounted component: the filters, priceData,   *)
(* comparisonData, forecastResult, the loading flags and the error, and    *)
(* the asynchronous calls in flight: fetching (the fetchCropData calls,    *)
(* each with the filters its closure captured and the promise it awaits)   *)
(* and comparing (the generateComparisonChart calls, each with the years   *)
(* captured).  A state change is followed by the render and by the effects *)
(* whose dependencies changed.                                             *)
(* comparisonData is kept as the cropDataMap it is computed from, and a    *)
(* ForecastResult as the arguments of the call that computed it; chartData,*)
(* trends and lastUpdated, set next to priceData, are left out.            *)
(***************************************************************************)
\* new Date().getFullYear(), and the years picked in the selects (two of
\* the years 2010..currentYear they offer, the first with no mock data).
CurrentYear == 2020
YearChoices == {2017, CurrentYear}

\* The calls of generateComparisonChart in flight at a time.
MaxComparing == 2

NoForecast == [defined |-> FALSE, historicalData |-> <<>>, monthsAhead |-> 0]

\* The responses getCropPrices resolves with (success is true in all): the
\* mock data of the years asked for, every data source having failed, or,
\* for cotton, a single record of the World Bank.
CropPricesResponses(crop, startYear, endYear) ==
    {SelectSeq(IF crop \in CropOptions THEN generateMockPriceData(crop, 2018, 2024)
               ELSE generateMockPriceData(crop, startYear, endYear),
               LAMBDA item : item.year >= startYear /\ item.year <= endYear)}
    \cup {result.value : result \in
            {r \in DataSources(crop, startYear, endYear)[3].results :
               crop = "cotton" /\ r.ok /\ Len(r.value) = 1}}

\* fetchCropData up to its first await, with the filters of the render.
fetchCropData(a) ==
    [a EXCEPT !.loading = TRUE,
              !.error = "null",
              !.fetching = Append(@, [selectedCrop |-> a.filters.selectedCrop,
                                      startYear |-> a.filters.startYear,
                                      endYear |-> a.filters.endYear,
                                      awaits |-> "getCropPrices"])]

\* generateComparisonChart up to its first await.
generateComparisonChart(a) ==
    [a EXCEPT !.comparing = Append(@, [startYear |-> a.filters.startYear,
                                       endYear |-> a.filters.endYear])]

\* The prediction effect and the generatePredictions it calls, which runs to
\* its end before any other event is handled (the promise it awaits is
\* resolved already): without predictions shown or without price data the
\* forecast is reset; data that is not valid leaves it as it is.
PredictionEffect(a) ==
    IF a.filters.showPredictions /\ Len(a.priceData) > 0
    THEN IF ~validateDataForPrediction(a.priceData).isValid
         THEN [a EXCEPT !.error = validateDataForPrediction(a.priceData).message,
                        !.predictionLoading = FALSE]
         ELSE [a EXCEPT !.error = "null",
                        !.forecastResult = [defined |-> TRUE,
                                            historicalData |-> a.priceData,
                                            monthsAhead |-> a.filters.predictionMonths],
                        !.predictionLoading = FALSE]
    ELSE [a EXCEPT !.forecastResult = NoForecast]

\* setFilters(filters), the render and the effects whose dependencies changed.
onFiltersChange(a, filters) ==
    Evaluated({Evaluated({Evaluated({
        IF filters.startYear # a.filters.startYear \/ filters.endYear # a.filters.endYear
        THEN generateComparisonChart(predicted) ELSE predicted
        : predicted \in
            {IF filters.showPredictions # a.filters.showPredictions
                \/ filters.predictionMonths # a.filters.predictionMonths
             THEN PredictionEffect(fetched) ELSE fetched}})
        : fetched \in
            {IF (filters.selectedCrop # a.filters.selectedCrop
                 \/ filters.startYear # a.filters.startYear
                 \/ filters.endYear # a.filters.endYear) /\ filters.selectedCrop # ""
             THEN fetchCropData(rendered) ELSE rendered}})
        : rendered \in {[a EXCEPT !.filters = filters]}})

\* The first render and its effects: the price data and the comparison
\* chart are being fetched.
InitApp ==
    /\ models = InitialModels
    /\ historicalData = <<>>
    /\ call = NoCall
    /\ outcome = NoOutcome
    /\ app = generateComparisonChart(fetchCropData(
               [mounted |-> TRUE,
                filters |-> [selectedCrop |-> "corn",
                             selectedYear |-> CurrentYear,
                             startYear |-> 2020,
                             endYear |-> CurrentYear,
                             showPredictions |-> FALSE,
                             predictionMonths |-> 12],
                priceData |-> <<>>,
                comparisonData |-> [corn |-> <<>>, wheat |-> <<>>,
                                    soybeans |-> <<>>, rice |-> <<>>],
                forecastResult |-> NoForecast,
                loading |-> FALSE,
                predictionLoading |-> FALSE,
                error |-> "null",
                fetching |-> <<>>,
                comparing |-> <<>>]))

\* The controls of FilterControls are disabled while loading.
HandleCropChange ==
    /\ ~app.loading
    /\ \E selectedCrop \in {"cotton", "corn"} :
         app' = onFiltersChange(app, [app.filters EXCEPT !.selectedCrop = selectedCrop])
    /\ UNCHANGED <<models, historicalData, call, outcome>>

HandleYearChange ==
    /\ ~app.loading
    /\ \E selectedYear \in YearChoices :
         app' = onFiltersChange(app, [app.filters EXCEPT !.selectedYear = selectedYear])
    /\ UNCHANGED <<models, historicalData, call, outcome>>

\* HandleStartYearChange, the end year left as it is.
HandleStartYearChangeOnly ==
    /\ ~app.loading /\ Len(app.comparing) < MaxComparing
    /\ \E startYear \in YearChoices :
         app' = onFiltersChange(app, [app.filters EXCEPT !.startYear = startYear])
    /\ UNCHANGED <<models, historicalData, call, outcome>>

\* endYear: Math.max(startYear, filters.endYear)
HandleStartYearChange ==
    /\ ~app.loading /\ Len(app.comparing) < MaxComparing
    /\ \E startYear \in YearChoices :
         app' = onFiltersChange(app, [app.filters EXCEPT
                                        !.startYear = startYear,
                                        !.endYear = Max2(startYear, app.filters.endYear)])
    /\ UNCHANGED <<models, historicalData, call, outcome>>

\* startYear: Math.min(filters.startYear, endYear)
HandleEndYearChange ==
    /\ ~app.loading /\ Len(app.comparing) < MaxComparing
    /\ \E endYear \in YearChoices :
         app' = onFiltersChange(app, [app.filters EXCEPT
                                        !.endYear = endYear,
                                        !.startYear = Min2(app.filters.startYear, endYear)])
    /\ UNCHANGED <<models, historicalData, call, outcome>>

HandlePredictionToggle ==
    /\ ~app.loading
    /\ \E showPredictions \in BOOLEAN :
         app' = onFiltersChange(app, [app.filters EXCEPT !.showPredictions = showPredictions])
    /\ UNCHANGED <<models, historicalData, call, outcome>>

HandlePredictionMonthsChange ==
    /\ ~app.loading
    /\ \E predictionMonths \in {3, 12} :
         app' = onFiltersChange(app, [app.filters EXCEPT !.predictionMonths = predictionMonths])
    /\ UNCHANGED <<models, historicalData, call, outcome>>

\* The refresh button, disabled while loading.
HandleRefresh ==
    /\ ~app.loading
    /\ app' = fetchCropData(app)
    /\ UNCHANGED <<models, historicalData, call, outcome>>

\* The getCropPrices a fetchCropData awaits resolves: priceData is set, the
\* prediction effect runs, and getCropTrends is awaited.
PricesFetched ==
    /\ \E k \in 1..Len(app.fetching) :
         /\ app.fetching[k].awaits = "getCropPrices"
         /\ \E data \in CropPricesResponses(app.fetching[k].selectedCrop,
                                            app.fetching[k].startYear,
                                            app.fetching[k].endYear) :
              app' = PredictionEffect([app EXCEPT !.priceData = data,
                                                  !.fetching[k].awaits = "getCropTrends"])
    /\ UNCHANGED <<models, historicalData, call, outcome>>

\* The getCropTrends it awaits resolves: finally, setLoading(false).
TrendsFetched ==
    /\ \E k \in 1..Len(app.fetching) :
         /\ app.fetching[k].awaits = "getCropTrends"
         /\ app' = [app EXCEPT !.loading = FALSE,
                               !.fetching = SubSeq(@, 1, k - 1) \o SubSeq(@, k + 1, Len(@))]
    /\ UNCHANGED <<models, historicalData, call, outcome>>

\* The four getCropPrices a generateComparisonChart awaits in turn have
\* resolved (until then it changes nothing but its own cropDataMap):
\* comparisonData is set.
ComparisonFetched ==
    /\ \E k \in 1..Len(app.comparing) :
         \E corn \in CropPricesResponses("corn", app.comparing[k].startYear,
                                          app.comparing[k].endYear),
            wheat \in CropPricesResponses("wheat", app.comparing[k].startYear,
                                           app.comparing[k].endYear),
            soybeans \in CropPricesResponses("soybeans", app.comparing[k].startYear,
                                              app.comparing[k].endYear),
            rice \in CropPricesResponses("rice", app.comparing[k].startYear,
                                          app.comparing[k].endYear) :
           app' = [app EXCEPT
                     !.comparisonData = [corn |-> corn, wheat |-> wheat,
                                         soybeans |-> soybeans, rice |-> rice],
                     !.comparing = SubSeq(@, 1, k - 1) \o SubSeq(@, k + 1, Len(@))]
    /\ UNCHANGED <<models, historicalData, call, outcome>>

NextApp ==
    \/ HandleCropChange
    \/ HandleYearChange
    \/ HandleStartYearChange
    \/ HandleEndYearChange
    \/ HandlePredictionToggle
    \/ HandlePredictionMonthsChange
    \/ HandleRefresh
    \/ PricesFetched
    \/ TrendsFetched
    \/ ComparisonFetched

SpecApp == InitApp /\ [][NextApp]_vars

(***************************************************************************)
(* Properties of PredictionService, over the last call and its outcome.    *)
(***************************************************************************)
Forecast == outcome.value
ForecastCall == call.op = "generatePredictions"

\* The number of months from year 0 to the month (year, month).
MonthIndex(year, month) == 12 * year + (month - 1)
LatestMonthIndex(data) ==
    CHOOSE k \in {MonthIndex(data[i].year, data[i].month) : i \in 1..Len(data)} :
        \A i \in 1..Len(data) : MonthIndex(data[i].year, data[i].month) <= k

\* C1: for a series of at least 12 points, a horizon h > 0 and the model
\* types ensemble, seasonal and linear, generatePredictions returns exactly
\* h predictions, prediction i lying i calendar months after the latest
\* historical (year, month), its month in 1..12 (the year rolls over after
\* month 12).
C1_ConsecutiveMonths ==
    (ForecastCall /\ Len(historicalData) >= 12 /\ call.modelType \in ModelTypes
       /\ call.monthsAhead > 0)
    => /\ outcome.ok
       /\ Len(Forecast.predictions) = call.monthsAhead
       /\ \A i \in 1..call.monthsAhead :
            /\ Forecast.predictions[i].month \in 1..12
            /\ MonthIndex(Forecast.predictions[i].year, Forecast.predictions[i].month)
                 = LatestMonthIndex(historicalData) + i

\* A series ending in December whose forecast starts in January of the next year.
C1_Witness ==
    /\ ForecastCall /\ Len(historicalData) = 12 /\ call.modelType = "seasonal"
    /\ call.monthsAhead = 2
    /\ historicalData[12].month = 12
    /\ Forecast.predictions[1].year = historicalData[12].year + 1
    /\ Forecast.predictions[1].month = 1
    /\ Forecast.predictions[2].month = 2

ForecastFields == {"predictions", "confidence", "model", "accuracy", "metadata"}

\* C2: generatePredictions never fails: for every series (empty and shorter
\* than 12 included), every horizon and every model type value (an
\* unrecognised one included) the call resolves with a ForecastResult, and
\* where the try block fails (a series shorter than 12) the result is the
\* fallback one.
C2_NeverFails ==
    ForecastCall
    => /\ outcome.ok
       /\ DOMAIN Forecast = ForecastFields
       /\ (Len(historicalData) < 12 => Forecast.model = "Simple Trend Model (Fallback)")

\* An unrecognised model type on an empty series, resolved with the fallback.
C2_Witness ==
    /\ ForecastCall /\ Len(historicalData) = 0 /\ call.modelType = "other"
    /\ outcome.ok /\ Forecast.model = "Simple Trend Model (Fallback)"

\* The average of the trailing 12 (or fewer) prices, compounded over i months
\* at 2% / 12 a month and rounded to 2 decimals.
TrailingPrices(data) == [j \in 1..Min2(12, Len(data)) |-> data[Len(data) - Min2(12, Len(data)) + j].price]
CompoundedPrice(data, i) ==
    Round2(Mul(Div(Sum(TrailingPrices(data)), Whole(Len(TrailingPrices(data)))),
               Pow(Add(Whole(1), Div(Dec(2, -2), Whole(12))), i)))

IsFallback(result) ==
    /\ result.confidence = Dec(60, -2)
    /\ result.accuracy = Dec(60, -2)
    /\ result.model = "Simple Trend Model (Fallback)"

HasFallbackPrices(result, data, h) ==
    /\ Len(result.predictions) = h
    /\ \A i \in 1..h : result.predictions[i].price = CompoundedPrice(data, i)

\* C3 as stated: a series shorter than 12 gets the fallback result, with
\* confidence and accuracy 0.60, the fallback model name, and for every step
\* i in 1..h the compounded trailing average as the price.
C3_Original ==
    (ForecastCall /\ Len(historicalData) < 12)
    => /\ outcome.ok
       /\ IsFallback(Forecast)
       /\ HasFallbackPrices(Forecast, historicalData, call.monthsAhead)

\* C3: a series shorter than 12 gets the fallback result, with confidence
\* and accuracy 0.60 and the fallback model name; a series of 1 to 11 points
\* gets for every step i in 1..h the compounded trailing average as the
\* price, and an empty series gets no predictions.
C3_FallbackResult ==
    (ForecastCall /\ Len(historicalData) < 12)
    => /\ outcome.ok
       /\ IsFallback(Forecast)
       /\ IF Len(historicalData) = 0 THEN Forecast.predictions = <<>>
          ELSE HasFallbackPrices(Forecast, historicalData, call.monthsAhead)

\* Eleven rising prices 100..150: the average 125 grows to 125.21, 125.42.
C3_Witness ==
    /\ ForecastCall /\ Len(historicalData) = 11 /\ call.monthsAhead = 2
    /\ historicalData[1].price = Whole(100) /\ historicalData[11].price = Whole(150)
    /\ IsFallback(Forecast)
    /\ Forecast.predictions[1].price = Dec(12521, -2)
    /\ Forecast.predictions[2].price = Dec(12542, -2)

AllFlagged(result, h) ==
    /\ Len(result.predictions) = h
    /\ \A i \in 1..h : result.predictions[i].isPrediction = TRUE

\* C4 as stated: every result of generatePredictions, for every length of
\* the series (0 included), holds as many predictions as the horizon asks
\* for, each flagged isPrediction.
C4_Original == ForecastCall => outcome.ok /\ AllFlagged(Forecast, call.monthsAhead)

\* C4: every result of generatePredictions for a series that is not empty
\* holds as many predictions as the horizon asks for, each flagged
\* isPrediction; the result for an empty series holds no prediction.
C4_HorizonAndFlag ==
    ForecastCall
    => /\ outcome.ok
       /\ IF Len(historicalData) = 0 THEN Forecast.predictions = <<>>
          ELSE AllFlagged(Forecast, call.monthsAhead)

\* A seasonal forecast (whose model sets no flag) and a fallback, both flagged.
C4_Witness ==
    /\ ForecastCall /\ call.monthsAhead = 3
    /\ \/ Len(historicalData) = 12 /\ call.modelType = "seasonal"
       \/ Len(historicalData) = 1
    /\ AllFlagged(Forecast, 3)

ValidationCall == call.op = "validateDataForPrediction"

\* C5: validateDataForPrediction never throws and classifies by length only:
\* 0 is invalid (no data), 1..5 invalid (insufficient), 6..11 valid with the
\* limited-data message and recommendations, 12 and more valid with the
\* sufficient-data message and no recommendations.
C5_ValidationClasses ==
    ValidationCall
    => /\ outcome.ok
       /\ LET n == Len(historicalData)
              v == outcome.value
          IN IF n = 0
             THEN ~v.isValid /\ v.message = "No historical data available"
             ELSE IF n <= 5
             THEN ~v.isValid /\ v.message = "Insufficient data for reliable predictions"
             ELSE IF n <= 11
             THEN /\ v.isValid
                  /\ v.message = "Limited data available - predictions may be less accurate"
                  /\ Len(v.recommendations) > 0
             ELSE /\ v.isValid
                  /\ v.message = "Sufficient data available for accurate predictions"
                  /\ Len(v.recommendations) = 0

\* The boundary lengths 6 and 12 classified.
C5_Witness ==
    /\ ValidationCall
    /\ \/ Len(historicalData) = 6 /\ outcome.value.isValid
          /\ Len(outcome.value.recommendations) = 2
       \/ Len(historicalData) = 12 /\ outcome.value.isValid
          /\ outcome.value.recommendations = <<>>

\* C6: for a series of at least 12 points and every model type, prediction
\* i of generatePredictions carries as confidenceInterval the bounds
\* calculateConfidenceIntervals gives at index i for the historical prices
\* and the predicted prices at the 0.95 level, rounded to 2 decimals.
C6_IntervalsAttached ==
    (ForecastCall /\ Len(historicalData) >= 12)
    => \A i \in 1..Len(Forecast.predictions) :
         Forecast.predictions[i].confidenceInterval =
           [lower |-> Round2(calculateConfidenceIntervals(
                                Prices(historicalData), Prices(Forecast.predictions),
                                Dec(95, -2)).lower[i]),
            upper |-> Round2(calculateConfidenceIntervals(
                                Prices(historicalData), Prices(Forecast.predictions),
                                Dec(95, -2)).upper[i])]

\* A forecast whose third prediction lies strictly inside its interval.
C6_Witness ==
    /\ ForecastCall /\ Len(historicalData) >= 12 /\ call.monthsAhead = 3
    /\ Lt(Forecast.predictions[3].confidenceInterval.lower, Forecast.predictions[3].price)
    /\ Lt(Forecast.predictions[3].price, Forecast.predictions[3].confidenceInterval.upper)

(***************************************************************************)
(* Properties of the prediction utilities called directly.                 *)
(***************************************************************************)
IntervalsCall == call.op = "calculateConfidenceIntervals"
Intervals == outcome.value
HistoricalVolatility == Volatility(Returns(Prices(historicalData)))

\* upper[i] - lower[i]
Width(bounds, i) == Sub(bounds.upper[i], bounds.lower[i])

\* C7 as stated: for every historical and every predicted price sequence the
\* outputs of calculateConfidenceIntervals are as long as the predictions
\* and upper[i] >= lower[i] at every index i.
C7_Original ==
    IntervalsCall
    => /\ Len(Intervals.lower) = Len(call.predictions)
       /\ Len(Intervals.upper) = Len(call.predictions)
       /\ \A i \in 1..Len(call.predictions) : Le(Intervals.lower[i], Intervals.upper[i])

WidthNonDecreasing(bounds) ==
    \A i \in 1..(Len(bounds.lower) - 1) : Le(Width(bounds, i), Width(bounds, i + 1))

ConstantPositive(predictions) ==
    \A i \in 1..Len(predictions) : predictions[i] = predictions[1] /\ Lt(Zero, predictions[i])

ArimaCall == call.op = "arimaForecast"

\* C9: arimaForecast on a series of at most order prices fails with the
\* insufficient-data error for every horizon, and on a longer series it
\* returns exactly periodsAhead values.
C9_ArimaPrecondition ==
    ArimaCall
    => IF Len(historicalData) <= call.order
       THEN ~outcome.ok /\ outcome.error = "Not enough data for ARIMA forecast"
       ELSE outcome.ok /\ Len(outcome.value) = call.periodsAhead

\* A series of exactly order prices refused, for a horizon of 2.
C9_Witness ==
    /\ ArimaCall /\ Len(historicalData) = call.order /\ call.periodsAhead = 2
    /\ ~outcome.ok

EnsembleCall == call.op = "ensembleForecast"
CallTerms == EnsembleTerms(historicalData, call.monthsAhead, call.random)

\* arimaForecast raises inside ensembleForecast: the series has at most 3 prices.
ArimaRaises == Len(historicalData) <= 3

\* C10 as stated: when arimaForecast raises inside ensembleForecast, the
\* autoregressive term of every step is that step's linear extrapolation
\* value, and ensembleForecast returns its predictions.
C10_Original ==
    (EnsembleCall /\ ArimaRaises)
    => /\ outcome.ok /\ Len(outcome.value) = call.monthsAhead
       /\ \A i \in 1..call.monthsAhead : CallTerms[i].arimaPrice = CallTerms[i].linearPrice

\* The last historical price is 0, NaN or missing (the series is empty).
LastPriceFalsy(data) ==
    \/ Len(data) = 0
    \/ IsNaN(data[Len(data)].price)
    \/ data[Len(data)].price = Zero

\* C10: when arimaForecast raises inside ensembleForecast, the
\* autoregressive term of every step is the last historical price, or that
\* step's linear extrapolation value when the last historical price is 0,
\* NaN or missing, and ensembleForecast returns its predictions.
C10_ArimaDegraded ==
    (EnsembleCall /\ ArimaRaises)
    => /\ outcome.ok /\ Len(outcome.value) = call.monthsAhead
       /\ \A i \in 1..call.monthsAhead :
            CallTerms[i].arimaPrice =
              IF LastPriceFalsy(historicalData) THEN CallTerms[i].linearPrice
              ELSE historicalData[Len(historicalData)].price

\* Two prices 100, 105: the autoregressive term of step 2 is 105, the linear
\* extrapolation 115.
C10_Witness ==
    /\ EnsembleCall /\ Len(historicalData) = 2 /\ call.monthsAhead = 2
    /\ historicalData[2].price = Whole(105)
    /\ CallTerms[2].arimaPrice = Whole(105)
    /\ CallTerms[2].linearPrice = Whole(115)
    /\ Len(outcome.value) = 2

\* The four component values of a step are one and the same number v.
AllEqual(t, v) ==
    /\ Num(v).k # "nan"
    /\ t.seasonalPrice = v /\ t.linearPrice = v
    /\ t.smoothingPrice = v /\ t.arimaPrice = v

\* C11: at every forecast step the ensemble price is
\* 0.40 * seasonal + 0.25 * linear + 0.20 * smoothing + 0.15 * autoregressive
\* rounded to 2 decimals, and where the four component values are one and
\* the same value v the ensemble price is v.
C11_WeightedSum ==
    EnsembleCall
    => \A terms \in {CallTerms} : \A i \in 1..Len(outcome.value) :
         /\ outcome.value[i].price =
              Round2(Add(Add(Add(Mul(Dec(40, -2), terms[i].seasonalPrice),
                                 Mul(Dec(25, -2), terms[i].linearPrice)),
                             Mul(Dec(20, -2), terms[i].smoothingPrice)),
                         Mul(Dec(15, -2), terms[i].arimaPrice)))
         /\ AllEqual(terms[i], terms[i].seasonalPrice)
              => outcome.value[i].price = terms[i].seasonalPrice

\* Two prices of 160 and no perturbation: the four components and the
\* ensemble price are 160.
C11_Witness ==
    /\ EnsembleCall /\ Len(historicalData) = 2 /\ call.monthsAhead = 2
    /\ AllEqual(CallTerms[2], Whole(160))
    /\ outcome.value[2].price = Whole(160)

\* C20: ensembleForecast returns h entries, each tagged source "Ensemble ML
\* Prediction" and quality "AI Forecasted", and entry i carries the year,
\* month and unit of entry i of the seasonal forecast computed in the call.
C20_SeasonalDates ==
    EnsembleCall
    => \A seasonalPredictions \in {seasonalForecast(historicalData, call.monthsAhead,
                                                     call.random)} :
         /\ outcome.ok
         /\ Len(outcome.value) = call.monthsAhead
         /\ Len(seasonalPredictions) = call.monthsAhead
         /\ \A i \in 1..Len(outcome.value) :
              /\ outcome.value[i].source = "Ensemble ML Prediction"
              /\ outcome.value[i].quality = "AI Forecasted"
              /\ outcome.value[i].year = seasonalPredictions[i].year
              /\ outcome.value[i].month = seasonalPredictions[i].month
              /\ outcome.value[i].unit = seasonalPredictions[i].unit

\* A forecast of three months that runs over the end of a year.
C20_Witness ==
    /\ EnsembleCall /\ call.monthsAhead = 3 /\ outcome.ok /\ Len(outcome.value) = 3
    /\ outcome.value[1].year < outcome.value[3].year
    /\ outcome.value[3].month < outcome.value[1].month
    /\ outcome.value[3].source = "Ensemble ML Prediction"
    /\ outcome.value[3].unit = historicalData[Len(historicalData)].unit

(***************************************************************************)
(* Properties of the single forecasting models called directly.            *)
(***************************************************************************)
SeasonalCall == call.op = "seasonalForecast"

\* The h entries lie on the h calendar months that follow the latest
\* historical month, and every one carries the two tags.
ContinuesTagged(entries, data, h, source, quality) ==
    /\ Len(entries) = h
    /\ \A i \in 1..h :
         /\ entries[i].month \in 1..12
         /\ MonthIndex(entries[i].year, entries[i].month) = LatestMonthIndex(data) + i
         /\ entries[i].source = source
         /\ entries[i].quality = quality

\* C12 as stated: seasonalForecast returns h entries that continue from the
\* last historical (year, month), each tagged source "Seasonal" and quality
\* "Forecasted".
C12_Original ==
    (SeasonalCall /\ Len(historicalData) > 0)
    => ContinuesTagged(outcome.value, historicalData, call.monthsAhead,
                       "Seasonal", "Forecasted")

\* C12: seasonalForecast returns h entries that continue from the last
\* historical (year, month), each tagged source "ML Prediction" and quality
\* "Forecasted".
C12_SeasonalEntries ==
    (SeasonalCall /\ Len(historicalData) > 0)
    => ContinuesTagged(outcome.value, historicalData, call.monthsAhead,
                       "ML Prediction", "Forecasted")

\* Twelve points ending in December: the entries of January and February of
\* the next year.
C12_Witness ==
    /\ SeasonalCall /\ Len(historicalData) = 12 /\ call.monthsAhead = 2
    /\ historicalData[12].month = 12
    /\ outcome.value[1].year = historicalData[12].year + 1
    /\ outcome.value[1].month = 1 /\ outcome.value[2].month = 2
    /\ outcome.value[2].source = "ML Prediction"
    /\ outcome.value[2].quality = "Forecasted"

\* The prices observed in calendar month m, and their mean over the mean of
\* all prices (1 for a month without observations).
PricesOfMonth(data, m) == Prices(SelectSeq(data, LAMBDA item : item.month = m))
MeanRatio(data, m) ==
    IF Len(PricesOfMonth(data, m)) = 0 THEN Whole(1)
    ELSE Div(Div(Sum(PricesOfMonth(data, m)), Whole(Len(PricesOfMonth(data, m)))),
             Div(Sum(Prices(data)), Whole(Len(data))))

\* The calendar month of forecast step i and the factor applied at it.
StepMonth(data, i) == MonthOf(FutureDate(LastDate(data), i))
AppliedFactor(data, i) == FactorFor(SeasonalFactors(data), StepMonth(data, i))

\* Every calendar month with observations has the same mean price.
SameMonthlyMeans(data) ==
    \A m1, m2 \in {data[j].month : j \in 1..Len(data)} :
        MeanRatio(data, m1) = MeanRatio(data, m2)

\* C13 as stated: the seasonal factor seasonalForecast applies at a step in
\* calendar month m is mean(prices of month m) / mean(all prices) when month
\* m has observations and 1 when it has none; so where every calendar month
\* has the same mean price, the factor applied at every step is 1.
C13_Original ==
    SeasonalCall
    => \A i \in 1..call.monthsAhead :
         /\ AppliedFactor(historicalData, i) = MeanRatio(historicalData, StepMonth(historicalData, i))
         /\ SameMonthlyMeans(historicalData) => AppliedFactor(historicalData, i) = Whole(1)

(***************************************************************************)
(* Further properties of PredictionService.                                *)
(***************************************************************************)
\* The values Math.random() may return during a call with the input of the
\* last call.
StreamsOfCall ==
    IF UsesRandom(historicalData, call.modelType)
    THEN RandomStreams(call.monthsAhead) ELSE {<<>>}

\* C14 as stated: two generatePredictions calls with identical input (any
\* model type) return identical predictions: whatever the random source
\* yields, a call with the input of the last call returns what it returned.
C14_Original ==
    ForecastCall
    => \A random \in StreamsOfCall :
         generatePredictions(models, historicalData, call.monthsAhead,
                             call.modelType, random).value.predictions
           = Forecast.predictions

\* The scenario: 24 monthly points at a constant price of 160, 2022-01
\* through 2023-12, forecast 12 months ahead by the ensemble.
ConstantScenario ==
    /\ ForecastCall /\ call.modelType = "ensemble" /\ call.monthsAhead = 12
    /\ historicalData = Series(24, "flat", 1, FALSE)

Within(x, low, high) == Le(Whole(low), x) /\ Le(x, Whole(high))

\* C15 as stated: in the scenario the fitted linear slope is 0, every
\* seasonal factor is 1, and every one of the 12 ensemble prices lies
\* between 152 and 168, whatever the random perturbation.
C15_Original ==
    ConstantScenario
    => /\ linearRegression(Indices(historicalData), Prices(historicalData)).slope = Zero
       /\ \A m \in 1..12 : SeasonalFactors(historicalData)[m] = Whole(1)
       /\ Len(Forecast.predictions) = 12
       /\ \A i \in 1..12 : Within(Forecast.predictions[i].price, 152, 168)

\* The width upper - lower of the interval attached to prediction i.
AttachedWidth(i) ==
    Sub(Forecast.predictions[i].confidenceInterval.upper,
        Forecast.predictions[i].confidenceInterval.lower)

\* C16 as stated: in the scenario the width of the confidence interval
\* attached to the ensemble forecast increases strictly from each step to
\* the next.
C16_Original ==
    ConstantScenario => \A i \in 1..11 : Lt(AttachedWidth(i), AttachedWidth(i + 1))

\* C16: in the scenario the width of the confidence interval attached to
\* the ensemble forecast is 0 at every step: both bounds are the predicted
\* price.
C16_ZeroWidth ==
    ConstantScenario
    => /\ Len(Forecast.predictions) = 12
       /\ \A i \in 1..12 :
            /\ AttachedWidth(i) = Zero
            /\ Forecast.predictions[i].confidenceInterval.lower = Forecast.predictions[i].price
            /\ Forecast.predictions[i].confidenceInterval.upper = Forecast.predictions[i].price

\* The scenario without perturbation: the last price 137.96 with the
\* interval 137.96 .. 137.96.
C16_Witness ==
    /\ ConstantScenario
    /\ Forecast.predictions[12].price = Dec(13796, -2)
    /\ Forecast.predictions[12].confidenceInterval
         = [lower |-> Dec(13796, -2), upper |-> Dec(13796, -2)]

RegressionCall == call.op = "linearRegression"

\* n * sum(x^2) - (sum x)^2 = 0
ZeroVariance(x) ==
    Sub(Mul(Whole(Len(x)), Sum([i \in 1..Len(x) |-> Mul(x[i], x[i])])),
        Mul(Sum(x), Sum(x))) = Zero

\* C17 as stated: linearRegression fails with an error, and returns no
\* slope and intercept, whenever the x values have zero variance
\* (single-point and all-equal-x inputs included).
C17_Original ==
    (RegressionCall /\ ZeroVariance(call.xValues)) => ~outcome.ok

\* The registry entry generatePredictions reports for a model type.
EntryOf(modelType) ==
    IF modelType = "seasonal" THEN InitialModels[2]
    ELSE IF modelType = "linear" THEN InitialModels[3]
    ELSE InitialModels[1]

\* C18: no call of generatePredictions, validateDataForPrediction or
\* getAvailableModels changes the caller's historical sequence, any of its
\* elements, or the model registry, and whatever calls came before, a
\* generatePredictions call on 12 or more points reports the name and the
\* accuracy the registry holds for its model type.
C18_Stateless ==
    /\ [][historicalData' = historicalData /\ models' = models]_vars
    /\ [](ForecastCall /\ Len(historicalData) >= 12
           => /\ Forecast.model = EntryOf(call.modelType).name
              /\ Forecast.accuracy = EntryOf(call.modelType).accuracy)

\* A linear forecast of the series whose two latest months come in reverse
\* order: the series is as the caller passed it, the registry entry reported.
C18_Witness ==
    /\ ForecastCall /\ call.modelType = "linear"
    /\ historicalData = Series(13, "up", 11, TRUE)
    /\ models = InitialModels
    /\ Forecast.model = "Linear Regression"
    /\ Forecast.accuracy = Dec(72, -2)

(***************************************************************************)
(* Properties of CropPriceService.                                         *)
(***************************************************************************)
PricesCall == call.op = "getCropPrices"

\* The result of a data source is a list that is not empty.
HasData(result) == result.ok /\ Len(result.value) > 0

\* The data sources called so far are the first call.index ones, in the
\* order alternative API, Quandl, World Bank, and all that have settled
\* before the last have thrown or returned an empty list.
CalledInOrder ==
    /\ call.index \in 1..3
    /\ \A k \in 1..3 :
         DataSources(call.crop, call.startYear, call.endYear)[k].name
           = <<"fetchFromAlternativeAPI", "fetchFromQuandl", "fetchFromWorldBank">>[k]
    /\ Len(call.settled) = (IF call.resolved THEN call.index ELSE call.index - 1)
    /\ \A k \in 1..Len(call.settled) :
         /\ call.settled[k] \in DataSources(call.crop, call.startYear, call.endYear)[k].results
         /\ k < call.index => ~HasData(call.settled[k])

\* The response of a resolved call: the list of the data source that settled
\* last, or the mock data of the years asked for when all three have failed.
ResolvedResponse ==
    /\ outcome.ok /\ outcome.value.success = TRUE
    /\ IF HasData(call.settled[call.index])
       THEN outcome.value.data = call.settled[call.index].value
       ELSE /\ call.index = 3
            /\ outcome.value.data =
                 SelectSeq(generateMockPriceData(call.crop,
                                                 IF call.crop \in CropOptions THEN 2018
                                                 ELSE call.startYear,
                                                 IF call.crop \in CropOptions THEN 2024
                                                 ELSE call.endYear),
                           LAMBDA item : call.startYear <= item.year /\ item.year <= call.endYear)

\* C19: getCropPrices always resolves, with success = true, and never
\* rejects: the data sources are tried in the order alternative API, Quandl,
\* World Bank, the list of the first one that returns a list that is not
\* empty is returned and no later one is called, and the mock data of the
\* years startYear..endYear are returned only after every data source has
\* thrown or returned an empty list.
C19_SourcesInOrder ==
    /\ [](PricesCall => outcome.ok /\ CalledInOrder /\ (call.resolved => ResolvedResponse))
    /\ (PricesCall ~> (PricesCall /\ call.resolved))

\* Corn for 2020..2021 after three failures: the 24 mock records of those years.
C19_Witness ==
    /\ PricesCall /\ call.resolved /\ call.crop = "corn" /\ call.startYear = 2020
    /\ Len(call.settled) = 3 /\ ~HasData(call.settled[3])
    /\ outcome.value.success = TRUE
    /\ Len(outcome.value.data) = 24
    /\ outcome.value.data[1].year = 2020 /\ outcome.value.data[24].year = 2021

(***************************************************************************)
(* Further properties of the forecasting models called directly.           *)
(***************************************************************************)
\* |x| of a number.
AbsOf(x) == IF x.k = "fin" /\ x.m < 0 THEN Neg(x) ELSE x

\* The trend fitted on the trailing window, and the predicted price of step
\* i: the trend at n + i (n the length of the window) times the mean ratio
\* of the step's calendar month.
TrailingFit(data) ==
    linearRegression(Indices(SliceLast(data, TrendWindow)), Prices(SliceLast(data, TrendWindow)))
PredictedPrice(data, i) ==
    Mul(TrendAt(TrailingFit(data), Len(SliceLast(data, TrendWindow)) + i),
        MeanRatio(data, StepMonth(data, i)))

\* price lies within 5% of predictedPrice, up to the half cent of the final
\* rounding and to the last digit of the eight the arithmetic keeps.
WithinFivePercent(price, predictedPrice) ==
    Le(AbsOf(Sub(price, predictedPrice)),
       Add(Mul(Dec(50001, -6), AbsOf(predictedPrice)), Dec(5, -3)))

\* C21 as stated: at every step i = 1..h the price seasonalForecast returns
\* lies within 5% of (slope * (n + i) + intercept) * seasonalFactor[month of
\* the step], the trend being fitted on the trailing min(24, length) points.
C21_Original ==
    SeasonalCall
    => \A i \in 1..call.monthsAhead :
         WithinFivePercent(outcome.value[i].price, PredictedPrice(historicalData, i))

\* The y values lie on a line over x = 0..n-1, n >= 2: y[t] = a + b * t with
\* a = LineStart(y) and b = LineStep(y).
LineStart(y) == y[1]
LineStep(y) == Sub(y[2], y[1])
PerfectlyLinear(x, y) ==
    /\ Len(y) >= 2 /\ x = Indices(y)
    /\ \A i \in 1..Len(y) : y[i] = Add(LineStart(y), Mul(LineStep(y), Whole(i - 1)))

\* C22 as stated: for a perfectly linear input y[t] = a + b * t over
\* x = 0..n-1 with n >= 2, linearRegression returns slope b, intercept a and
\* an R2 of 1, the constant case b = 0 included.
C22_Original ==
    (RegressionCall /\ PerfectlyLinear(call.xValues, call.yValues))
    => /\ outcome.value.slope = LineStep(call.yValues)
       /\ outcome.value.intercept = LineStart(call.yValues)
       /\ outcome.value.r2 = Whole(1)

SmoothingCall == call.op = "exponentialSmoothing"

\* s is the smoothing of y: s[0] = y[0] and s[i] = alpha * y[i] + (1 - alpha) * s[i - 1].
Smoothes(s, y, alpha) ==
    /\ Len(y) >= 1 => s[1] = y[1]
    /\ \A i \in 2..Len(y) :
         s[i] = Add(Mul(alpha, y[i]), Mul(Sub(Whole(1), alpha), s[i - 1]))

\* C23 as stated: for every price sequence, the empty one included, and
\* every alpha of (0, 1], exponentialSmoothing returns a sequence of the
\* length of its input with s[0] = y[0] and
\* s[i] = alpha * y[i] + (1 - alpha) * s[i - 1] for i >= 1.
C23_Original ==
    SmoothingCall
    => /\ Len(outcome.value) = Len(call.prices)
       /\ Smoothes(outcome.value, call.prices, call.alpha)

(***************************************************************************)
(* Further properties of the results of PredictionService.                 *)
(***************************************************************************)
\* x is a number of [0, 1].
UnitInterval(x) == Le(Zero, x) /\ Le(x, Whole(1))

\* C24: in every ForecastResult of generatePredictions, of the normal and
\* of the fallback path, metadata.dataPoints is the length of the historical
\* input and metadata.forecastHorizon the horizon asked for, confidence and
\* accuracy lie in [0, 1], and the pair (model, confidence) is the registry
\* entry of the model type (ensemble 0.85, seasonal 0.78, linear 0.72) or
\* the fallback pair (0.60).
C24_Metadata ==
    ForecastCall
    => /\ outcome.ok
       /\ Forecast.metadata.dataPoints = Len(historicalData)
       /\ Forecast.metadata.forecastHorizon = call.monthsAhead
       /\ UnitInterval(Forecast.confidence) /\ UnitInterval(Forecast.accuracy)
       /\ IF Len(historicalData) >= 12
          THEN /\ Forecast.model = EntryOf(call.modelType).name
               /\ Forecast.confidence = EntryOf(call.modelType).accuracy
               /\ <<Forecast.model, Forecast.confidence>>
                    \in {<<"Ensemble ML Model", Dec(85, -2)>>,
                         <<"Seasonal Decomposition", Dec(78, -2)>>,
                         <<"Linear Regression", Dec(72, -2)>>}
          ELSE /\ Forecast.model = "Simple Trend Model (Fallback)"
               /\ Forecast.confidence = Dec(60, -2)

\* A seasonal forecast of 25 points over 3 months.
C24_Witness ==
    /\ ForecastCall /\ call.monthsAhead = 3
    /\ call.modelType = "seasonal" /\ Len(historicalData) = 25
    /\ Forecast.metadata.dataPoints = 25 /\ Forecast.metadata.forecastHorizon = 3
    /\ Forecast.model = "Seasonal Decomposition" /\ Forecast.confidence = Dec(78, -2)

(***************************************************************************)
(* Properties of the App component and of FilterControls.                  *)
(***************************************************************************)
\* C25: from the initial filters, whose startYear is at most endYear, the
\* filters passed to onFiltersChange always have startYear <= endYear: a
\* change of the start year raises endYear to the new start where it was
\* below it, a change of the end year lowers startYear to the new end where
\* it was above it, and the handlers of the crop, the focus year, the
\* prediction toggle and the prediction months leave both as they are.
C25_YearsOrdered ==
    /\ [](app.filters.startYear <= app.filters.endYear)
    /\ [][/\ HandleStartYearChange
             => /\ app'.filters.startYear \in YearChoices
                /\ app'.filters.endYear >= app'.filters.startYear
                /\ app'.filters.endYear \in {app.filters.endYear, app'.filters.startYear}
          /\ HandleEndYearChange
             => /\ app'.filters.endYear \in YearChoices
                /\ app'.filters.startYear <= app'.filters.endYear
                /\ app'.filters.startYear \in {app.filters.startYear, app'.filters.endYear}
          /\ (HandleCropChange \/ HandleYearChange \/ HandlePredictionToggle
                \/ HandlePredictionMonthsChange)
             => /\ app'.filters.startYear = app.filters.startYear
                /\ app'.filters.endYear = app.filters.endYear]_vars

\* The end year 2017 picked with the start year at 2020: both are 2017, and
\* cotton is selected.
C25_Witness ==
    /\ app.filters.startYear = 2017 /\ app.filters.endYear = 2017
    /\ app.filters.selectedCrop = "cotton"

\* C29 as stated: once no fetch is in flight, priceData and comparisonData
\* are computed from responses to requests for the current startYear and
\* endYear (and the selected crop): a response to a request with older
\* filters never overwrites the result of a newer one.
C29_Original ==
    (app.fetching = <<>> /\ app.comparing = <<>>)
    => /\ app.priceData \in CropPricesResponses(app.filters.selectedCrop,
                                                app.filters.startYear, app.filters.endYear)
       /\ \A crop \in {"corn", "wheat", "soybeans", "rice"} :
            app.comparisonData[crop] \in CropPricesResponses(crop, app.filters.startYear,
                                                             app.filters.endYear)

\* C30 as stated: once the prediction effect has settled, forecastResult is
\* defined only with predictions shown, and is computed from the current
\* priceData and predictionMonths; with predictions off, with empty
\* priceData or with priceData that validateDataForPrediction rejects it is
\* undefined; and predictionLoading is false.
C30_Original ==
    /\ ~app.predictionLoading
    /\ app.forecastResult.defined
       => /\ app.filters.showPredictions
          /\ app.forecastResult.historicalData = app.priceData
          /\ app.forecastResult.monthsAhead = app.filters.predictionMonths
    /\ (~app.filters.showPredictions \/ Len(app.priceData) = 0
          \/ ~validateDataForPrediction(app.priceData).isValid)
       => ~app.forecastResult.defined

(***************************************************************************)
(* Properties of the models PredictionService uses.                        *)
(***************************************************************************)
\* C26: the models of the registry are used exactly for a series of at
\* least 12 points: a series of 6..11 points, which
\* validateDataForPrediction accepts as valid, gets the fallback result
\* (model "Simple Trend Model (Fallback)", confidence 0.60) for every model
\* type, and a series of 12 or more with the model type ensemble, seasonal
\* or linear gets the registry model of that type.
C26_FallbackBelowTwelve ==
    ForecastCall
    => /\ outcome.ok
       /\ Len(historicalData) \in 6..11
          => /\ validateDataForPrediction(historicalData).isValid
             /\ Forecast.model = "Simple Trend Model (Fallback)"
             /\ Forecast.confidence = Dec(60, -2)
       /\ Len(historicalData) < 12 => Forecast.model = "Simple Trend Model (Fallback)"
       /\ (Len(historicalData) >= 12 /\ call.modelType \in {"ensemble", "seasonal", "linear"})
          => /\ Forecast.model = EntryOf(call.modelType).name
             /\ Forecast.model \in {"Ensemble ML Model", "Seasonal Decomposition",
                                    "Linear Regression"}

\* A linear forecast asked for 11 points, which are valid: the fallback.
C26_Witness ==
    /\ ForecastCall /\ Len(historicalData) = 11 /\ call.modelType = "linear"
    /\ validateDataForPrediction(historicalData).isValid
    /\ Forecast.model = "Simple Trend Model (Fallback)"
    /\ Forecast.confidence = Dec(60, -2)

\* x is a defined finite number.
Finite(x) == x.k = "fin"

\* The series has at least 12 points and no price below 0.
LongNonNegative(data) ==
    /\ Len(data) >= 12
    /\ \A i \in 1..Len(data) : Le(Zero, data[i].price)

\* C27 as stated: for a series of at least 12 points with no price below 0
\* and every model type, every predicted price and every confidence bound
\* of the ForecastResult is a defined finite number.
C27_Original ==
    (ForecastCall /\ LongNonNegative(historicalData))
    => \A i \in 1..Len(Forecast.predictions) :
         /\ Finite(Forecast.predictions[i].price)
         /\ Finite(Forecast.predictions[i].confidenceInterval.lower)
         /\ Finite(Forecast.predictions[i].confidenceInterval.upper)

\* C28 as stated: for a series of at least 12 points with no price below 0
\* and every model type, no predicted price of generatePredictions is
\* below 0.
C28_Original ==
    (ForecastCall /\ LongNonNegative(historicalData))
    => \A i \in 1..Len(Forecast.predictions) : Le(Zero, Forecast.predictions[i].price)
====
